---------------------------- MODULE Spec2Model ----------------------------
(***************************************************************************)
(* A model of sneakers_db_build.py: the cached remote fetcher (Api), the   *)
(* pagination driver, the record normalizer and the store builder          *)
(* (Database).                                                             *)
(*                                                                         *)
(* Text values (str) are tuples of one-character strings, so that strip,   *)
(* upper, endswith, rstrip and slicing are computed character by           *)
(* character.  Dictionaries are functions whose DOMAIN is the key set.     *)
(* Cache file names and column names are TLA+ strings.                     *)
(***************************************************************************)
EXTENDS Integers, Sequences, FiniteSets, TLC

(***************************************************************************)
(* str helpers                                                             *)
(***************************************************************************)
Whitespace == {" "}

RECURSIVE LStrip(_)
LStrip(s) ==
    IF s # <<>> /\ Head(s) \in Whitespace THEN LStrip(Tail(s)) ELSE s

RECURSIVE RStripWs(_)
RStripWs(s) ==
    IF s # <<>> /\ s[Len(s)] \in Whitespace
    THEN RStripWs(SubSeq(s, 1, Len(s) - 1))
    ELSE s

\* str.strip()
Strip(s) == RStripWs(LStrip(s))

\* str.rstrip(chars): every trailing character of the set is removed
RECURSIVE RStrip(_, _)
RStrip(s, chars) ==
    IF s # <<>> /\ s[Len(s)] \in chars
    THEN RStrip(SubSeq(s, 1, Len(s) - 1), chars)
    ELSE s

UpperChar(c) ==
    CASE c = "m" -> "M"
      [] c = "e" -> "E"
      [] c = "n" -> "N"
      [] c = "s" -> "S"
      [] c = "w" -> "W"
      [] c = "o" -> "O"
      [] c = "i" -> "I"
      [] c = "k" -> "K"
      [] c = "d" -> "D"
      [] OTHER -> c

\* str.upper()
Upper(s) == [i \in 1..Len(s) |-> UpperChar(s[i])]

\* str.endswith(suffix)
EndsWith(s, suffix) ==
    /\ Len(s) >= Len(suffix)
    /\ SubSeq(s, Len(s) - Len(suffix) + 1, Len(s)) = suffix

\* str.startswith(prefix)
StartsWith(s, prefix) ==
    /\ Len(s) >= Len(prefix)
    /\ SubSeq(s, 1, Len(prefix)) = prefix

Digits == {"0", "1", "2", "3", "4", "5", "6", "7", "8", "9"}

DigitVal(c) ==
    CASE c = "0" -> 0 [] c = "1" -> 1 [] c = "2" -> 2 [] c = "3" -> 3
      [] c = "4" -> 4 [] c = "5" -> 5 [] c = "6" -> 6 [] c = "7" -> 7
      [] c = "8" -> 8 [] c = "9" -> 9

\* int(s) of a string of four decimal digits
Int4(s) ==
    1000 * DigitVal(s[1]) + 100 * DigitVal(s[2]) + 10 * DigitVal(s[3])
        + DigitVal(s[4])

\* re.match(r"^\d\d\d\d-\d\d-\d\d$", rd) on a stripped string
MatchesDate(rd) ==
    /\ Len(rd) = 10
    /\ \A i \in {1, 2, 3, 4, 6, 7, 9, 10} : rd[i] \in Digits
    /\ rd[5] = "-"
    /\ rd[8] = "-"

\* a dictionary with the key k removed (dict.pop)
Without(d, keys) == [k \in DOMAIN d \ keys |-> d[k]]

\* a one-entry dictionary if present, the empty dictionary otherwise
Entry(present, k, v) == IF present THEN k :> v ELSE <<>>

(***************************************************************************)
(* Record Normalizer                                                       *)
(***************************************************************************)
SneakerKeys ==
    {"brand", "gender", "estimatedMarketValue", "releaseYear", "story", "id",
     "colorway", "silhouette", "sku", "image", "retailPrice", "links", "name",
     "releaseDate"}

ImageKeys == {"360", "original", "small", "thumbnail"}

LinkKeys == {"flightClub", "goat", "stadiumGoods", "stockX"}

IntegerFields == {"releaseYear", "estimatedMarketValue", "retailPrice"}

MENS == <<"M", "E", "N", "S">>

SENTINEL_DATE == <<"0", "0", "0", "1", "-", "0", "1", "-", "0", "1">>

\* assert_sneaker_keys with "==" weakened to ">=": extra keys pass
assert_sneaker_keys_superset(sneaker) ==
    /\ SneakerKeys \subseteq DOMAIN sneaker
    /\ ImageKeys \subseteq DOMAIN sneaker["image"]
    /\ LinkKeys \subseteq DOMAIN sneaker["links"]

\* assert_sneaker_keys: TRUE when no assertion fails
assert_sneaker_keys(sneaker) ==
    /\ DOMAIN sneaker = SneakerKeys
    /\ DOMAIN sneaker["image"] = ImageKeys
    /\ DOMAIN sneaker["links"] = LinkKeys

\* the gender branch without the MENS/WOMENS rewrite
normalize_gender_keep_plural(value) == Upper(Strip(value))

\* the gender branch of get_basically_sanitized_sneaker_data: strip, upper,
\* and rstrip("S") when the value ends with MENS
normalize_gender(value) ==
    LET u == Upper(Strip(value)) IN
    IF EndsWith(u, MENS) THEN RStrip(u, {"S"}) ELSE u

normalize_brand(value) == Upper(Strip(value))

\* the value stored for a string-valued key
sanitized_value(key, value) ==
    CASE key = "gender" -> normalize_gender(value)
      [] key = "brand" -> normalize_brand(value)
      [] OTHER -> Strip(value)

\* get_basically_sanitized_sneaker_data with integer fields kept from 0 up
sanitized_keep_zero(sneaker, genders_, brands_) ==
    LET kept == {k \in DOMAIN sneaker :
                    k \in IntegerFields => sneaker[k] >= 0}
        unknown ==
            \/ /\ "gender" \in DOMAIN sneaker
               /\ normalize_gender(sneaker["gender"]) \notin genders_
            \/ /\ "brand" \in DOMAIN sneaker
               /\ normalize_brand(sneaker["brand"]) \notin brands_
    IN  IF unknown
        THEN [exc |-> "TypeError", data |-> <<>>]
        ELSE [exc |-> "none",
              data |-> [k \in kept |->
                          IF k \in IntegerFields
                          THEN sneaker[k]
                          ELSE sanitized_value(k, sneaker[k])]]

\* get_basically_sanitized_sneaker_data: [exc, data]; the two
\* raise "..." statements raise TypeError (a str is no exception)
get_basically_sanitized_sneaker_data(sneaker, genders_, brands_) ==
    LET kept == {k \in DOMAIN sneaker :
                    k \in IntegerFields => sneaker[k] > 0}
        unknown ==
            \/ /\ "gender" \in DOMAIN sneaker
               /\ normalize_gender(sneaker["gender"]) \notin genders_
            \/ /\ "brand" \in DOMAIN sneaker
               /\ normalize_brand(sneaker["brand"]) \notin brands_
    IN  IF unknown
        THEN [exc |-> "TypeError", data |-> <<>>]
        ELSE [exc |-> "none",
              data |-> [k \in kept |->
                          IF k \in IntegerFields
                          THEN sneaker[k]
                          ELSE sanitized_value(k, sneaker[k])]]

\* fix_date_and_year_in_sneaker_data with the sentinel date treated like
\* any other date
fix_date_no_sentinel(data) ==
    LET has_ry == "releaseYear" \in DOMAIN data
        rd0 == IF "releaseDate" \in DOMAIN data
               THEN Strip(data["releaseDate"]) ELSE <<>>
        rest == Without(data, {"releaseDate", "releaseYear"})
        rd == IF StartsWith(rd0, <<"0", "0">>)
              THEN <<"2", "0">> \o SubSeq(rd0, 3, Len(rd0)) ELSE rd0
        ry == IF rd0 = <<>> THEN (IF has_ry THEN data["releaseYear"] ELSE 0)
              ELSE IF ~has_ry \/ data["releaseYear"] = 0 THEN Int4(rd)
              ELSE IF data["releaseYear"] < 99 THEN data["releaseYear"] + 2000
              ELSE data["releaseYear"]
    IN  IF rd0 # <<>> /\ ~MatchesDate(rd0)
        THEN [exc |-> "AssertionError", data |-> <<>>]
        ELSE [exc |-> "none",
              data |-> rest @@ Entry(rd # <<>>, "releaseDate", rd)
                            @@ Entry(ry # 0, "releaseYear", ry)]

\* fix_date_and_year_in_sneaker_data with the century repair at "< 100"
fix_date_repair_100(data) ==
    LET has_ry == "releaseYear" \in DOMAIN data
        rd0 == IF "releaseDate" \in DOMAIN data
               THEN Strip(data["releaseDate"]) ELSE <<>>
        rest == Without(data, {"releaseDate", "releaseYear"})
        in_block == rd0 # <<>> /\ rd0 # SENTINEL_DATE
        rd == IF in_block /\ StartsWith(rd0, <<"0", "0">>)
              THEN <<"2", "0">> \o SubSeq(rd0, 3, Len(rd0)) ELSE rd0
        ry == IF ~in_block THEN (IF has_ry THEN data["releaseYear"] ELSE 0)
              ELSE IF ~has_ry \/ data["releaseYear"] = 0 THEN Int4(rd)
              ELSE IF data["releaseYear"] < 100 THEN data["releaseYear"] + 2000
              ELSE data["releaseYear"]
    IN  IF in_block /\ ~MatchesDate(rd0)
        THEN [exc |-> "AssertionError", data |-> <<>>]
        ELSE [exc |-> "none",
              data |-> rest @@ Entry(rd # <<>>, "releaseDate", rd)
                            @@ Entry(ry # 0, "releaseYear", ry)]

\* fix_date_and_year_in_sneaker_data without the rewrite of a leading "00"
fix_date_no_rewrite(data) ==
    LET has_ry == "releaseYear" \in DOMAIN data
        rd == IF "releaseDate" \in DOMAIN data
              THEN Strip(data["releaseDate"]) ELSE <<>>
        rest == Without(data, {"releaseDate", "releaseYear"})
        in_block == rd # <<>> /\ rd # SENTINEL_DATE
        ry == IF ~in_block THEN (IF has_ry THEN data["releaseYear"] ELSE 0)
              ELSE IF ~has_ry \/ data["releaseYear"] = 0 THEN Int4(rd)
              ELSE IF data["releaseYear"] < 99 THEN data["releaseYear"] + 2000
              ELSE data["releaseYear"]
    IN  IF in_block /\ ~MatchesDate(rd)
        THEN [exc |-> "AssertionError", data |-> <<>>]
        ELSE [exc |-> "none",
              data |-> rest @@ Entry(rd # <<>>, "releaseDate", rd)
                            @@ Entry(ry # 0, "releaseYear", ry)]

\* fix_date_and_year_in_sneaker_data: [exc, data].  ry is None when the
\* key is absent; "if ry" is false for None and for 0.
fix_date_and_year_in_sneaker_data(data) ==
    LET has_ry == "releaseYear" \in DOMAIN data
        rd0 == IF "releaseDate" \in DOMAIN data
               THEN Strip(data["releaseDate"]) ELSE <<>>
        rest == Without(data, {"releaseDate", "releaseYear"})
        in_block == rd0 # <<>> /\ rd0 # SENTINEL_DATE
        rd == IF in_block /\ StartsWith(rd0, <<"0", "0">>)
              THEN <<"2", "0">> \o SubSeq(rd0, 3, Len(rd0)) ELSE rd0
        \* 0 stands for a falsy ry (None or 0)
        ry == IF ~in_block THEN (IF has_ry THEN data["releaseYear"] ELSE 0)
              ELSE IF ~has_ry \/ data["releaseYear"] = 0 THEN Int4(rd)
              ELSE IF data["releaseYear"] < 99 THEN data["releaseYear"] + 2000
              ELSE data["releaseYear"]
    IN  IF in_block /\ ~MatchesDate(rd0)
        THEN [exc |-> "AssertionError", data |-> <<>>]
        ELSE [exc |-> "none",
              data |-> rest @@ Entry(rd # <<>>, "releaseDate", rd)
                            @@ Entry(ry # 0, "releaseYear", ry)]

\* sqlize_sneakers_images_fields without the "if ... != ''" filter
sqlize_images_keep_empty(images) ==
    [k \in {"image_original", "image_small", "image_thumbnail"} |->
        CASE k = "image_original" -> Strip(images["original"])
          [] k = "image_small" -> Strip(images["small"])
          [] k = "image_thumbnail" -> Strip(images["thumbnail"])]

\* sqlize_sneakers_images_fields
sqlize_sneakers_images_fields(images) ==
    Entry(Strip(images["original"]) # <<>>, "image_original",
          Strip(images["original"]))
    @@ Entry(Strip(images["small"]) # <<>>, "image_small",
             Strip(images["small"]))
    @@ Entry(Strip(images["thumbnail"]) # <<>>, "image_thumbnail",
             Strip(images["thumbnail"]))

\* sqlize_sneakers_links_fields
sqlize_sneakers_links_fields(links) ==
    Entry(Strip(links["flightClub"]) # <<>>, "link_flightClub",
          Strip(links["flightClub"]))
    @@ Entry(Strip(links["goat"]) # <<>>, "link_goat", Strip(links["goat"]))
    @@ Entry(Strip(links["stadiumGoods"]) # <<>>, "link_stadiumGoods",
             Strip(links["stadiumGoods"]))
    @@ Entry(Strip(links["stockX"]) # <<>>, "link_stockX",
             Strip(links["stockX"]))

\* insert_360_images: the rows (sku, position, image), position = enumerate
insert_360_images(sku, images) ==
    {[sku |-> sku, position |-> i - 1, image |-> images["360"][i]] :
        i \in 1..Len(images["360"])}

\* the sneakers table's PRIMARY KEY on sku: TRUE when the INSERT is refused
sku_primary_key_conflict(table, row) == \E r \in table : r["sku"] = row["sku"]

\* insert_sneaker on the connection's view d of the database:
\* [exc, db].  Nothing is written unless both INSERTs are reached.
insert_sneaker(sneaker, d, genders_, brands_) ==
    IF ~assert_sneaker_keys(sneaker) \/ ~(Len(sneaker["sku"]) > 0)
    THEN [exc |-> "AssertionError", db |-> d]
    ELSE
    LET sku == sneaker["sku"]
        images == sneaker["image"]
        links == sneaker["links"]
        san == get_basically_sanitized_sneaker_data(
                   Without(sneaker, {"id", "image", "links"}), genders_, brands_)
        fixed == fix_date_and_year_in_sneaker_data(san.data)
        row == fixed.data @@ sqlize_sneakers_images_fields(images)
                          @@ sqlize_sneakers_links_fields(links)
    IN  IF san.exc # "none" THEN [exc |-> san.exc, db |-> d]
        ELSE IF fixed.exc # "none" THEN [exc |-> fixed.exc, db |-> d]
        ELSE IF sku_primary_key_conflict(d.sneakers, row)
        THEN [exc |-> "IntegrityError", db |-> d]
        ELSE [exc |-> "none",
              db |-> [d EXCEPT
                        !.sneakers = @ \cup {row},
                        !.images_360 = @ \cup insert_360_images(sku, images)]]

(***************************************************************************)
(* Cached Remote Fetcher (Api)                                             *)
(***************************************************************************)
VARIABLES
    remote,         \* the provider's data: brands, genders, count, pages
    cache,          \* cache_dir: file name -> the JSON document it holds
    requests,       \* the file names of the remote requests issued, in order
    memo,           \* functools.cache / cached_property results of Api
    pc,             \* the main thread's position in Database.process
    raised,         \* the exception that left process(), if any
    brands,         \* Database.brands
    genders,        \* Database.genders
    db,             \* the in-memory database as the connection sees it
    committed,      \* the in-memory database as of the last commit
    artifact,       \* sneakers.db: <<>> until savedb, then <<the database>>
    page,           \* the page the driver is at
    last_page_num,  \* load_sneakers' last_page_num
    results,        \* data["results"] of the page being loaded
    idx,            \* 1-based index in results of the next sneaker
    log,            \* the logging.info / logging.error page entries, in order
    concurrency,    \* load_sneakers' concurrency
    futures,        \* load_sneakers_concurrently: page -> state of its task
    workers,        \* the pool's threads: position in load_sneakers_page
    ncalls,         \* the number of Api.call invocations made directly
    returned        \* what the last direct Api.call invocation returned

vars ==
    <<remote, cache, requests, memo, pc, raised, brands, genders, db,
      committed, artifact, page, last_page_num, results, idx, log,
      concurrency, futures, workers, ncalls, returned>>

page_limit == 100

\* the querystring keys in use, in sorted() order
KEY_ORDER == <<"limit", "name", "page">>

\* querystring: a dict as the tuple of its (key, value) items in insertion
\* order; querystring.keys()
insertion_keys(querystring) == [i \in 1..Len(querystring) |-> querystring[i][1]]

\* the keys taken as the dict yields them, without sorted()
unsorted_keys(querystring) == insertion_keys(querystring)

\* sorted(querystring.keys())
sorted_keys(querystring) ==
    SelectSeq(KEY_ORDER,
              LAMBDA k : \E i \in 1..Len(querystring) : querystring[i][1] = k)

qs_get(querystring, k) ==
    querystring[CHOOSE i \in 1..Len(querystring) : querystring[i][1] = k][2]

\* repr(value) of an int or a str (of letters, digits and "_"): a str is
\* quoted, an int is not
repr(value) == ToString(value)

\* f"{value}": a str as it is, an int in decimal
format_value(value) ==
    LET r == repr(value) IN
    IF SubSeq(r, 1, 1) = "\"" THEN SubSeq(r, 2, Len(r) - 1) ELSE r

RECURSIVE join_fname(_, _)
join_fname(querystring, keys) ==
    IF keys = <<>> THEN ""
    ELSE "_" \o Head(keys) \o "_"
             \o format_value(qs_get(querystring, Head(keys)))
             \o join_fname(querystring, Tail(keys))

\* Api.cache_path: the cache file's name
cache_path(endpoint, querystring) ==
    endpoint \o join_fname(querystring, sorted_keys(querystring)) \o ".json"

\* cache.is_file() with the cache never consulted
is_file_never(c) == FALSE

\* cache.is_file()
is_file(c) == c \in DOMAIN cache

\* Api.call with the file opened for writing before raise_for_status: a
\* failed request leaves an empty document at the cache path
call_caching_failure(endpoint, querystring, resp) ==
    LET c == cache_path(endpoint, querystring) IN
    IF is_file(c)
    THEN [exc |-> "none", data |-> cache[c], cache |-> cache,
          requests |-> requests]
    ELSE IF ~resp.ok
    THEN [exc |-> "HTTPError", data |-> <<>>, cache |-> (c :> <<>>) @@ cache,
          requests |-> Append(requests, c)]
    ELSE [exc |-> "none", data |-> resp.doc,
          cache |-> (c :> resp.doc) @@ cache,
          requests |-> Append(requests, c)]

\* Api.call, given the response resp = [ok, doc] the provider would give:
\* [exc, data, cache, requests].  A document read back from its file is
\* the document written (json.dump then json.loads of a JSON value).
call(endpoint, querystring, resp) ==
    LET c == cache_path(endpoint, querystring) IN
    IF is_file(c)
    THEN [exc |-> "none", data |-> cache[c], cache |-> cache,
          requests |-> requests]
    ELSE IF ~resp.ok
    THEN [exc |-> "HTTPError", data |-> <<>>, cache |-> cache,
          requests |-> Append(requests, c)]
    ELSE [exc |-> "none", data |-> resp.doc,
          cache |-> (c :> resp.doc) @@ cache,
          requests |-> Append(requests, c)]

\* what the provider answers: an error status, or the current document
remote_response(endpoint, querystring, fail) ==
    IF fail THEN [ok |-> FALSE, doc |-> <<>>]
    ELSE [ok |-> TRUE,
          doc |-> CASE endpoint = "brands" -> [results |-> remote.brands]
                    [] endpoint = "genders" -> [results |-> remote.genders]
                    [] endpoint = "sneakers" ->
                         LET p == qs_get(querystring, "page") IN
                         [count |-> remote.count,
                          results |-> IF p \in DOMAIN remote.pages
                                      THEN remote.pages[p] ELSE <<>>]]

sneakers_qs(p) == <<<<"limit", page_limit>>, <<"page", p>>>>

memo_key(name, p) == name \o "/" \o ToString(p)

\* Api.brands / Api.genders (cached_property) and Api.sneakers
\* (functools.cache): the memoized value, else call(); a raise is not
\* memoized.  [exc, data, cache, requests, memo]
memoized(name, endpoint, querystring, p, fail) ==
    IF memo_key(name, p) \in DOMAIN memo
    THEN [exc |-> "none", data |-> memo[memo_key(name, p)], cache |-> cache,
          requests |-> requests, memo |-> memo]
    ELSE LET r == call(endpoint, querystring,
                       remote_response(endpoint, querystring, fail))
         IN  [exc |-> r.exc, data |-> r.data, cache |-> r.cache,
              requests |-> r.requests,
              memo |-> IF r.exc = "none"
                       THEN (memo_key(name, p) :> r.data) @@ memo
                       ELSE memo]

api_brands(fail) == memoized("brands", "brands", <<>>, 0, fail)

api_genders(fail) == memoized("genders", "genders", <<>>, 0, fail)

api_sneakers(p, fail) == memoized("sneakers", "sneakers", sneakers_qs(p), p, fail)

\* sorted(resp["results"]): the list is only iterated and searched
sorted_results(doc) == {doc.results[i] : i \in 1..Len(doc.results)}

(***************************************************************************)
(* Store Builder and Pagination Driver (Database)                          *)
(***************************************************************************)
EmptyDb ==
    [brands |-> {}, genders |-> {}, sneakers |-> {}, images_360 |-> {},
     sneakers_fts |-> {}]

NoException == [in |-> "", exc |-> "none"]

\* count // self.page_limit - 1
last_page_of_floor(count) == (count \div page_limit) - 1

\* math.ceil(count / self.page_limit) - 1
last_page_of(count) == ((count + page_limit - 1) \div page_limit) - 1

\* insert_genders without the filter
gender_rows_all(gs) == gs

\* the rows insert_genders inserts: every gender but MENS and WOMENS
gender_rows(gs) == gs \ {MENS, <<"W", "O">> \o MENS}

FtsColumns == {"brand", "name", "silhouette", "colorway", "sku"}

\* SELECT brand, name, silhouette, colorway, sku FROM sneakers
fts_rows(sneakers) == {[c \in FtsColumns |-> r[c]] : r \in sneakers}

\* a loop that ends at the first page that raised
next_page_after_error_stop(p) == last_page_num + 1

\* load_sneakers_safely: the except clause is inside the loop, which goes on
\* with the next page
next_page_after_error(p) == p + 1

\* create_tables
CreateTables ==
    /\ pc = "create_tables"
    /\ db' = EmptyDb
    /\ pc' = "insert_brands"
    /\ UNCHANGED <<remote, cache, requests, memo, raised, brands, genders,
                   committed, artifact, page, last_page_num, results, idx, log>>
    /\ UNCHANGED <<concurrency, futures, workers, ncalls, returned>>

\* insert_brands; an exception of api.brands leaves process()
InsertBrands ==
    /\ pc = "insert_brands"
    /\ \E fail \in BOOLEAN :
         LET r == api_brands(fail) IN
         /\ cache' = r.cache
         /\ requests' = r.requests
         /\ memo' = r.memo
         /\ IF r.exc = "none"
            THEN /\ brands' = sorted_results(r.data)
                 /\ db' = [db EXCEPT !.brands = @ \cup sorted_results(r.data)]
                 /\ committed' = db'
                 /\ pc' = "insert_genders"
                 /\ UNCHANGED raised
            ELSE /\ raised' = [in |-> "insert_brands", exc |-> r.exc]
                 /\ pc' = "aborted"
                 /\ UNCHANGED <<brands, db, committed>>
    /\ UNCHANGED <<remote, genders, artifact, page, last_page_num, results,
                   idx, log>>
    /\ UNCHANGED <<concurrency, futures, workers, ncalls, returned>>

\* insert_genders inside a try that logs the exception and goes on
InsertGendersCaught ==
    /\ pc = "insert_genders"
    /\ \E fail \in BOOLEAN :
         LET r == api_genders(fail) IN
         /\ cache' = r.cache
         /\ requests' = r.requests
         /\ memo' = r.memo
         /\ IF r.exc = "none"
            THEN /\ genders' = sorted_results(r.data)
                 /\ db' = [db EXCEPT
                             !.genders = @ \cup gender_rows(sorted_results(r.data))]
                 /\ committed' = db'
            ELSE UNCHANGED <<genders, db, committed>>
         /\ pc' = "load_sneakers"
    /\ UNCHANGED <<remote, raised, brands, artifact, page, last_page_num,
                   results, idx, log>>
    /\ UNCHANGED <<concurrency, futures, workers, ncalls, returned>>

\* insert_genders; an exception of api.genders leaves process()
InsertGenders ==
    /\ pc = "insert_genders"
    /\ \E fail \in BOOLEAN :
         LET r == api_genders(fail) IN
         /\ cache' = r.cache
         /\ requests' = r.requests
         /\ memo' = r.memo
         /\ IF r.exc = "none"
            THEN /\ genders' = sorted_results(r.data)
                 /\ db' = [db EXCEPT
                             !.genders = @ \cup gender_rows(sorted_results(r.data))]
                 /\ committed' = db'
                 /\ pc' = "load_sneakers"
                 /\ UNCHANGED raised
            ELSE /\ raised' = [in |-> "insert_genders", exc |-> r.exc]
                 /\ pc' = "aborted"
                 /\ UNCHANGED <<genders, db, committed>>
    /\ UNCHANGED <<remote, brands, artifact, page, last_page_num, results,
                   idx, log>>
    /\ UNCHANGED <<concurrency, futures, workers, ncalls, returned>>

\* load_sneakers up to the call of load_sneakers_safely or
\* load_sneakers_concurrently: the first page is fetched outside any try, so
\* its exception leaves process().  load_sneakers_concurrently submits one
\* task per page.
LoadSneakers ==
    /\ pc = "load_sneakers"
    /\ \E fail \in BOOLEAN :
         LET r == api_sneakers(0, fail) IN
         /\ cache' = r.cache
         /\ requests' = r.requests
         /\ memo' = r.memo
         /\ IF r.exc = "none"
            THEN /\ last_page_num' = last_page_of(r.data.count)
                 /\ page' = 0
                 /\ IF concurrency > 1
                    THEN /\ pc' = "concurrent"
                         /\ futures' = [p \in 0..last_page_num' |-> "pending"]
                    ELSE /\ pc' = "pages"
                         /\ UNCHANGED futures
                 /\ UNCHANGED raised
            ELSE /\ raised' = [in |-> "load_sneakers", exc |-> r.exc]
                 /\ pc' = "aborted"
                 /\ UNCHANGED <<last_page_num, page, futures>>
    /\ UNCHANGED <<remote, brands, genders, db, committed, artifact, results,
                   idx, log, concurrency, workers, ncalls, returned>>

\* load_sneakers_safely: one iteration up to the fetch of load_sneakers_page
\* (lines 197-200, 210-211); an exception of the fetch is caught and logged
LoadSneakersPage ==
    /\ pc = "pages"
    /\ page <= last_page_num
    /\ \E fail \in BOOLEAN :
         LET r == api_sneakers(page, fail) IN
         /\ cache' = r.cache
         /\ requests' = r.requests
         /\ memo' = r.memo
         /\ IF r.exc = "none"
            THEN /\ results' = r.data.results
                 /\ idx' = 1
                 /\ pc' = "insert"
                 /\ log' = Append(log, [level |-> "info", page |-> page])
                 /\ UNCHANGED page
            ELSE /\ log' = log \o <<[level |-> "info", page |-> page],
                                    [level |-> "error", page |-> page]>>
                 /\ page' = next_page_after_error(page)
                 /\ UNCHANGED <<results, idx, pc>>
    /\ UNCHANGED <<remote, raised, brands, genders, db, committed, artifact,
                   last_page_num>>
    /\ UNCHANGED <<concurrency, futures, workers, ncalls, returned>>

\* load_sneakers_page: insert_sneaker of the next sneaker returns
InsertSneakerOk ==
    /\ pc = "insert"
    /\ idx <= Len(results)
    /\ LET r == insert_sneaker(results[idx], db, genders, brands) IN
       /\ r.exc = "none"
       /\ db' = r.db
    /\ idx' = idx + 1
    /\ UNCHANGED <<remote, cache, requests, memo, pc, raised, brands, genders,
                   committed, artifact, page, last_page_num, results, log>>
    /\ UNCHANGED <<concurrency, futures, workers, ncalls, returned>>

\* load_sneakers_page: insert_sneaker raises; load_sneakers_safely catches
\* and logs, and nothing rolls the open transaction back
InsertSneakerRaise ==
    /\ pc = "insert"
    /\ idx <= Len(results)
    /\ insert_sneaker(results[idx], db, genders, brands).exc # "none"
    /\ log' = Append(log, [level |-> "error", page |-> page])
    /\ page' = next_page_after_error(page)
    /\ pc' = "pages"
    /\ UNCHANGED <<remote, cache, requests, memo, raised, brands, genders, db,
                   committed, artifact, last_page_num, results, idx>>
    /\ UNCHANGED <<concurrency, futures, workers, ncalls, returned>>

\* load_sneakers_page: self.db.commit() after the last sneaker of the page
PageCommit ==
    /\ pc = "insert"
    /\ idx > Len(results)
    /\ committed' = db
    /\ page' = page + 1
    /\ pc' = "pages"
    /\ UNCHANGED <<remote, cache, requests, memo, raised, brands, genders, db,
                   artifact, last_page_num, results, idx, log>>
    /\ UNCHANGED <<concurrency, futures, workers, ncalls, returned>>

\* a range that stops one page short: range(last_page_num)
PagesDoneEarly ==
    /\ pc = "pages"
    /\ page >= last_page_num
    /\ pc' = "load_fts"
    /\ UNCHANGED <<remote, cache, requests, memo, raised, brands, genders, db,
                   committed, artifact, page, last_page_num, results, idx, log>>
    /\ UNCHANGED <<concurrency, futures, workers, ncalls, returned>>

\* load_sneakers_safely: the range is exhausted
PagesDone ==
    /\ pc = "pages"
    /\ page > last_page_num
    /\ pc' = "load_fts"
    /\ UNCHANGED <<remote, cache, requests, memo, raised, brands, genders, db,
                   committed, artifact, page, last_page_num, results, idx, log>>
    /\ UNCHANGED <<concurrency, futures, workers, ncalls, returned>>

\* load_fts: fills the search table and commits
LoadFts ==
    /\ pc = "load_fts"
    /\ db' = [db EXCEPT !.sneakers_fts = @ \cup fts_rows(db.sneakers)]
    /\ committed' = db'
    /\ pc' = "savedb"
    /\ UNCHANGED <<remote, cache, requests, memo, raised, brands, genders,
                   artifact, page, last_page_num, results, idx, log>>
    /\ UNCHANGED <<concurrency, futures, workers, ncalls, returned>>

\* savedb: backs the database up to sneakers.db and closes it
SaveDb ==
    /\ pc = "savedb"
    /\ artifact' = <<committed>>
    /\ pc' = "done"
    /\ UNCHANGED <<remote, cache, requests, memo, raised, brands, genders, db,
                   committed, page, last_page_num, results, idx, log>>
    /\ UNCHANGED <<concurrency, futures, workers, ncalls, returned>>

(***************************************************************************)
(* load_sneakers_concurrently: the pool's threads run load_sneakers_page   *)
(***************************************************************************)
IdleWorker == [pc |-> "idle", page |-> 0, idx |-> 1, results |-> <<>>]

\* a connection opened with check_same_thread=False
check_same_thread_off == FALSE

\* sqlite3.connect(":memory:") leaves check_same_thread at its default: a
\* thread other than the creating one gets ProgrammingError from every
\* method of the connection
check_same_thread == TRUE

\* the values after one step of thread w in its task, load_sneakers_page;
\* an exception ends the task with the future holding it
worker_next(w, fail) ==
    LET me == workers[w]
        same == [workers |-> workers, futures |-> futures, cache |-> cache,
                 requests |-> requests, memo |-> memo, db |-> db,
                 committed |-> committed]
        ended(how) == [same EXCEPT !.workers = [workers EXCEPT ![w] = IdleWorker],
                                   !.futures = [futures EXCEPT ![me.page] = how]]
    IN  CASE me.pc = "idle" ->
               \* the thread takes the next task of the queue
               LET p == CHOOSE q \in DOMAIN futures :
                            /\ futures[q] = "pending"
                            /\ \A o \in DOMAIN futures :
                                   futures[o] = "pending" => q <= o
               IN  [same EXCEPT !.workers = [workers EXCEPT ![w] =
                                    [IdleWorker EXCEPT !.pc = "cursor", !.page = p]],
                                !.futures = [futures EXCEPT ![p] = "running"]]
          [] me.pc = "cursor" ->
               \* cursor = self.db.cursor()
               IF check_same_thread
               THEN ended("raised")
               ELSE [same EXCEPT !.workers = [workers EXCEPT ![w].pc = "fetch"]]
          [] me.pc = "fetch" ->
               \* data = self.api.sneakers(limit=self.page_limit, page=page)
               LET r == api_sneakers(me.page, fail) IN
               IF r.exc # "none"
               THEN [ended("raised") EXCEPT !.cache = r.cache,
                                            !.requests = r.requests]
               ELSE [same EXCEPT !.workers = [workers EXCEPT ![w] =
                                    [me EXCEPT !.pc = "insert", !.idx = 1,
                                               !.results = r.data.results]],
                                !.cache = r.cache, !.requests = r.requests,
                                !.memo = r.memo]
          [] me.pc = "insert" ->
               IF me.idx <= Len(me.results)
               THEN \* self.insert_sneaker(sneaker, cursor)
                    LET r == insert_sneaker(me.results[me.idx], db, genders, brands)
                    IN  IF r.exc # "none"
                        THEN ended("raised")
                        ELSE [same EXCEPT !.workers = [workers EXCEPT ![w].idx = @ + 1],
                                          !.db = r.db]
               ELSE \* self.db.commit()
                    [ended("finished") EXCEPT !.committed = db]

\* a step of a pool thread
WorkerStep(w) ==
    /\ pc = "concurrent"
    /\ workers[w].pc = "idle" => \E p \in DOMAIN futures : futures[p] = "pending"
    /\ \E fail \in BOOLEAN :
         LET n == worker_next(w, fail) IN
         /\ workers' = n.workers
         /\ futures' = n.futures
         /\ cache' = n.cache
         /\ requests' = n.requests
         /\ memo' = n.memo
         /\ db' = n.db
         /\ committed' = n.committed
    /\ UNCHANGED <<remote, pc, raised, brands, genders, artifact, page,
                   last_page_num, results, idx, log, concurrency, ncalls,
                   returned>>

\* as_completed yields a finished task; its exception is logged
TaskCompleted ==
    /\ pc = "concurrent"
    /\ \E p \in DOMAIN futures :
         /\ futures[p] \in {"finished", "raised"}
         /\ futures' = [futures EXCEPT ![p] = "collected"]
         /\ log' = IF futures[p] = "raised"
                   THEN Append(log, [level |-> "error", page |-> p])
                   ELSE log
    /\ UNCHANGED <<remote, cache, requests, memo, pc, raised, brands, genders,
                   db, committed, artifact, page, last_page_num, results, idx,
                   concurrency, workers, ncalls, returned>>

\* every task was yielded and the executor is shut down
ExecutorDone ==
    /\ pc = "concurrent"
    /\ \A p \in DOMAIN futures : futures[p] = "collected"
    /\ pc' = "load_fts"
    /\ UNCHANGED <<remote, cache, requests, memo, raised, brands, genders, db,
                   committed, artifact, page, last_page_num, results, idx, log,
                   concurrency, futures, workers, ncalls, returned>>

NextConc ==
    \/ CreateTables
    \/ InsertBrands
    \/ InsertGenders
    \/ LoadSneakers
    \/ \E w \in DOMAIN workers : WorkerStep(w)
    \/ TaskCompleted
    \/ ExecutorDone
    \/ LoadFts
    \/ SaveDb

(***************************************************************************)
(* Api.call invoked directly, in any sequence                              *)
(***************************************************************************)
\* at most MaxCalls invocations
MaxCalls == 4

CallSignatures ==
    {<<"brands", <<>>>>,
     <<"sneakers", <<<<"limit", page_limit>>, <<"page", 0>>>>>>,
     <<"sneakers", <<<<"page", 0>>, <<"limit", page_limit>>>>>>,
     <<"sneakers", <<<<"limit", page_limit>>, <<"page", 1>>>>>>,
     <<"sneakers", <<<<"limit", page_limit>>, <<"name", "x">>, <<"page", 1>>>>>>,
     <<"sneakers", <<<<"limit", page_limit>>, <<"name", "x_page_1">>>>>>}

\* what the provider may answer to a request
CallResponses ==
    {[ok |-> FALSE, doc |-> <<>>],
     [ok |-> TRUE, doc |-> [count |-> 0, results |-> <<>>]],
     [ok |-> TRUE, doc |-> [count |-> 1, results |-> <<>>]]}

\* a dict as the set of its items, each value as its repr
items(querystring) ==
    {<<querystring[i][1], repr(querystring[i][2])>> : i \in 1..Len(querystring)}

NotReturned ==
    [endpoint |-> "", keys |-> <<>>, items |-> {}, file |-> "", hit |-> FALSE,
     exc |-> "none", data |-> <<>>]

\* one invocation of Api.call; returned keeps the arguments, the cache
\* path, the "cache hit" line of the log and the outcome
ApiCall ==
    /\ ncalls < MaxCalls
    /\ \E sig \in CallSignatures, resp \in CallResponses :
         LET r == call(sig[1], sig[2], resp) IN
         /\ cache' = r.cache
         /\ requests' = r.requests
         /\ returned' = [endpoint |-> sig[1],
                         keys |-> insertion_keys(sig[2]),
                         items |-> items(sig[2]),
                         file |-> cache_path(sig[1], sig[2]),
                         hit |-> is_file(cache_path(sig[1], sig[2])),
                         exc |-> r.exc, data |-> r.data]
    /\ ncalls' = ncalls + 1
    /\ UNCHANGED <<remote, memo, pc, raised, brands, genders, db, committed,
                   artifact, page, last_page_num, results, idx, log,
                   concurrency, futures, workers>>

NextCall == ApiCall

Next ==
    \/ CreateTables
    \/ InsertBrands
    \/ InsertGenders
    \/ LoadSneakers
    \/ LoadSneakersPage
    \/ InsertSneakerOk
    \/ InsertSneakerRaise
    \/ PageCommit
    \/ PagesDone
    \/ LoadFts
    \/ SaveDb

(***************************************************************************)
(* The provider's data                                                     *)
(***************************************************************************)
NIKE == <<"N", "I", "K", "E">>
MEN == <<"M", "E", "N">>
WOMEN == <<"W", "O", "M", "E", "N">>
WOMENS == <<"W", "O", "M", "E", "N", "S">>
KIDS == <<"K", "I", "D", "S">>
URL1 == <<"u", "1">>
URL2 == <<"u", "2">>
DATE_2015 == <<"2", "0", "1", "5", "-", "0", "3", "-", "0", "1">>
DATE_0099 == <<"0", "0", "9", "9", "-", "0", "5", "-", "0", "1">>
DATE_2099 == <<"2", "0", "9", "9", "-", "0", "5", "-", "0", "1">>
DATE_0000 == <<"0", "0", "0", "0", "-", "0", "1", "-", "0", "1">>
DATE_2000 == <<"2", "0", "0", "0", "-", "0", "1", "-", "0", "1">>
DATE_SHORT == <<"2", "0", "1", "5", "-", "3", "-", "1">>

\* a CatalogRecord with every key of the closed schema
make_sneaker(sku, gender, brand, date, year, l360) ==
    [brand |-> brand, gender |-> gender, estimatedMarketValue |-> 0,
     releaseYear |-> year, story |-> <<"s">>, id |-> <<"i", "d">>,
     colorway |-> <<"c">>, silhouette |-> <<" ", "h">>, sku |-> sku,
     image |-> ("360" :> l360) @@
               [original |-> URL1, small |-> <<" ">>, thumbnail |-> <<>>],
     retailPrice |-> 120,
     links |-> [flightClub |-> <<>>, goat |-> URL2, stadiumGoods |-> <<>>,
                stockX |-> <<>>],
     name |-> <<"n">>, releaseDate |-> date]

\* the CatalogRecord with other prices
with_prices(sneaker, emv, rp) ==
    [sneaker EXCEPT !["estimatedMarketValue"] = emv, !["retailPrice"] = rp]

\* the CatalogRecord with other image and link values
with_urls(sneaker, original, small, goat, stockX) ==
    [sneaker EXCEPT !["image"]["original"] = original,
                    !["image"]["small"] = small,
                    !["links"]["goat"] = goat,
                    !["links"]["stockX"] = stockX]

\* at most MaxRecs sneakers on a page of the run
MaxRecs == 2

DigitChar(n) ==
    CASE n = 0 -> "0" [] n = 1 -> "1" [] n = 2 -> "2" [] n = 3 -> "3"
      [] n = 4 -> "4" [] OTHER -> "9"

\* the sneaker at position i of page p: "ok" is accepted, "bad" has a brand
\* the provider does not list
run_sneaker(p, i, kind) ==
    make_sneaker(<<"P", DigitChar(p), DigitChar(i)>>, <<"m", "e", "n", "s">>,
                 IF kind = "ok" THEN <<" ", "n", "i", "k", "e">> ELSE KIDS,
                 DATE_2015, 15, <<URL1>>)

PagePatterns == UNION {[1..n -> {"ok", "bad"}] : n \in 0..MaxRecs}

\* the counts the provider reports: no page, one page, a full page, two, three
Counts == {0, 1, page_limit, page_limit + 1, 2 * page_limit + 50}

RunPages(count) ==
    LET L == IF last_page_of(count) < 0 THEN 0 ELSE last_page_of(count) IN
    {[p \in 0..L |-> [i \in 1..Len(f[p]) |-> run_sneaker(p, i, f[p][i])]] :
        f \in [0..L -> PagePatterns]}

RunRemotes ==
    UNION {{[brands |-> <<NIKE>>, genders |-> <<MEN, WOMEN, WOMENS>>,
             count |-> c, pages |-> pg] : pg \in RunPages(c)} : c \in Counts}

\* the state after Database.__init__, with an empty cache directory
Init ==
    /\ remote \in RunRemotes
    /\ cache = <<>>
    /\ requests = <<>>
    /\ memo = <<>>
    /\ pc = "create_tables"
    /\ raised = NoException
    /\ brands = {}
    /\ genders = {}
    /\ db = EmptyDb
    /\ committed = EmptyDb
    /\ artifact = <<>>
    /\ page = 0
    /\ last_page_num = -1
    /\ results = <<>>
    /\ idx = 1
    /\ log = <<>>
    /\ concurrency = 1
    /\ futures = <<>>
    /\ workers = <<>>
    /\ ncalls = 0
    /\ returned = NotReturned

Spec == Init /\ [][Next]_vars

(***************************************************************************)
(* One sneaker through the normalizer: the same run, on a provider whose   *)
(* single page holds a single sneaker drawn from the cases below.          *)
(***************************************************************************)
NormDates ==
    {<<>>, <<" ">>, SENTINEL_DATE, <<" ">> \o SENTINEL_DATE, DATE_2015,
     <<" ">> \o DATE_2015 \o <<" ">>, DATE_0099, DATE_0000, DATE_SHORT}

NormYears == {-5, 0, 15, 98, 99, 100, 2014, 2015}

NormSkus == {<<"A">>, <<" ", "A">>, <<"A", " ">>, <<" ">>, <<>>}

Norm360 == {<<>>, <<URL1>>, <<URL1, URL2>>}

NormGenders ==
    {MENS, <<"m", "e", "n", "s">>, <<" ", "W", "o", "m", "e", "n", "s", " ">>,
     MEN, WOMEN, KIDS, <<"k", "i", "d">>}

NormBrands == {NIKE, <<" ", "n", "i", "k", "e">>, KIDS}

NormGenderLists == {<<MEN, WOMEN, WOMENS>>, <<MENS, KIDS>>}

NormPrices == {-5, 0, 1, 120}

\* CatalogRecords off the closed schema: a key missing or added, at the top
\* level, in image, in links
NormShapes ==
    LET s == make_sneaker(<<"A">>, MEN, NIKE, DATE_2015, 2015, <<URL1>>) IN
    {s,
     Without(s, {"story"}),
     Without(s, {"id"}),
     s @@ ("extra" :> <<"x">>),
     [s EXCEPT !["image"] = Without(@, {"small"})],
     [s EXCEPT !["image"] = @ @@ ("large" :> URL1)],
     [s EXCEPT !["links"] = Without(@, {"goat"})],
     [s EXCEPT !["links"] = @ @@ ("ebay" :> URL2)]}

NormUrls == {URL1, <<" ", "u", "1", " ">>, <<" ">>, <<>>}

NormCases ==
    {[gs |-> <<MEN, WOMEN, WOMENS>>,
      sneaker |-> make_sneaker(<<"A">>, MEN, NIKE, d, y, <<>>)] :
        d \in NormDates, y \in NormYears}
    \cup
    {[gs |-> <<MEN, WOMEN, WOMENS>>,
      sneaker |-> make_sneaker(k, MEN, NIKE, DATE_2015, 2015, l)] :
        k \in NormSkus, l \in Norm360}
    \cup
    {[gs |-> gl,
      sneaker |-> make_sneaker(<<"A">>, g, b, DATE_2015, 2015, <<URL1>>)] :
        gl \in NormGenderLists, g \in NormGenders, b \in NormBrands}
    \cup
    {[gs |-> <<MEN, WOMEN, WOMENS>>,
      sneaker |-> with_prices(make_sneaker(<<"A">>, MEN, NIKE, DATE_2015,
                                           2015, <<>>), emv, rp)] :
        emv \in NormPrices, rp \in NormPrices}
    \cup
    {[gs |-> <<MEN, WOMEN, WOMENS>>, sneaker |-> sh] : sh \in NormShapes}
    \cup
    {[gs |-> <<MEN, WOMEN, WOMENS>>,
      sneaker |-> with_urls(make_sneaker(<<"A">>, MEN, NIKE, DATE_2015,
                                         2015, <<>>), o, sm, g, sx)] :
        o \in NormUrls, sm \in {URL2, <<" ">>}, g \in NormUrls,
        sx \in {URL1, <<>>}}

InitNorm ==
    /\ remote \in {[brands |-> <<NIKE>>, genders |-> c.gs, count |-> 1,
                    pages |-> (0 :> <<c.sneaker>>)] : c \in NormCases}
    /\ cache = <<>>
    /\ requests = <<>>
    /\ memo = <<>>
    /\ pc = "create_tables"
    /\ raised = NoException
    /\ brands = {}
    /\ genders = {}
    /\ db = EmptyDb
    /\ committed = EmptyDb
    /\ artifact = <<>>
    /\ page = 0
    /\ last_page_num = -1
    /\ results = <<>>
    /\ idx = 1
    /\ log = <<>>
    /\ concurrency = 1
    /\ futures = <<>>
    /\ workers = <<>>
    /\ ncalls = 0
    /\ returned = NotReturned

SpecNorm == InitNorm /\ [][Next]_vars

\* at most MaxWorkers threads in the pool
MaxWorkers == 2

\* the provider's data for the concurrent run: two accepted sneakers a page
ConcRemotes ==
    {[brands |-> <<NIKE>>, genders |-> <<MEN, WOMEN, WOMENS>>, count |-> c,
      pages |-> [p \in 0..(IF last_page_of(c) < 0 THEN 0 ELSE last_page_of(c))
                   |-> <<run_sneaker(p, 1, "ok"), run_sneaker(p, 2, "ok")>>]] :
        c \in Counts}

\* the run with load_sneakers' concurrency above 1
InitConc ==
    /\ remote \in ConcRemotes
    /\ cache = <<>>
    /\ requests = <<>>
    /\ memo = <<>>
    /\ pc = "create_tables"
    /\ raised = NoException
    /\ brands = {}
    /\ genders = {}
    /\ db = EmptyDb
    /\ committed = EmptyDb
    /\ artifact = <<>>
    /\ page = 0
    /\ last_page_num = -1
    /\ results = <<>>
    /\ idx = 1
    /\ log = <<>>
    /\ concurrency = MaxWorkers
    /\ futures = <<>>
    /\ workers = [w \in 1..MaxWorkers |-> IdleWorker]
    /\ ncalls = 0
    /\ returned = NotReturned

SpecConc == InitConc /\ [][NextConc]_vars

\* Api after __init__, with an empty cache directory
InitCall ==
    /\ remote = [brands |-> <<>>, genders |-> <<>>, count |-> 0, pages |-> <<>>]
    /\ cache = <<>>
    /\ requests = <<>>
    /\ memo = <<>>
    /\ pc = "create_tables"
    /\ raised = NoException
    /\ brands = {}
    /\ genders = {}
    /\ db = EmptyDb
    /\ committed = EmptyDb
    /\ artifact = <<>>
    /\ page = 0
    /\ last_page_num = -1
    /\ results = <<>>
    /\ idx = 1
    /\ log = <<>>
    /\ concurrency = 1
    /\ futures = <<>>
    /\ workers = <<>>
    /\ ncalls = 0
    /\ returned = NotReturned

SpecCall == InitCall /\ [][NextCall]_vars

(***************************************************************************)
(* Properties of the sequential run (Spec)                                 *)
(***************************************************************************)
ErrorPages == {log[i].page : i \in {j \in 1..Len(log) : log[j].level = "error"}}

AttemptedPages ==
    LET a == SelectSeq(log, LAMBDA e : e.level = "info") IN
    [i \in 1..Len(a) |-> a[i].page]

\* the skus (as stored) of the sneakers the provider holds on page p
PageSkus(p) ==
    {Strip(remote.pages[p][i]["sku"]) : i \in 1..Len(remote.pages[p])}

StoredSkus(d) == {r["sku"] : r \in d.sneakers}

\* C1: once the artifact is published, it holds no sneaker of a page whose
\* processing failed, the sneakers inserted before the failing one included.
C1_FailedPageAbsentFromArtifact ==
    artifact # <<>> =>
        \A p \in ErrorPages : PageSkus(p) \cap StoredSkus(artifact[1]) = {}

\* C2: no failure of fetching or processing a sneakers page, page 0 and its
\* count included, leaves the run: the run is never aborted inside
\* load_sneakers.
C2_PageFailureNeverAborts ==
    ~(pc = "aborted" /\ raised.in = "load_sneakers")

\* the number of pages for a count: the least k with k * page_limit >= count
PagesFor(count) ==
    CHOOSE k \in 0..count :
        /\ k * page_limit >= count
        /\ k = 0 \/ (k - 1) * page_limit < count

\* C5: the sequential driver attempts the pages 0, 1, 2, ... in this order,
\* each once, never more than ceil(N / page_limit) of them and exactly that many
\* once the loop has ended; and whenever the driver is past a page that was
\* processed without error, that page's sneakers are committed.
C5_PagesInOrderAndCommitted ==
    /\ \A i \in 1..Len(AttemptedPages) : AttemptedPages[i] = i - 1
    /\ Len(AttemptedPages) <= PagesFor(remote.count)
    /\ pc \in {"load_fts", "savedb", "done"} =>
           Len(AttemptedPages) = PagesFor(remote.count)
    /\ pc \in {"pages", "insert", "load_fts", "savedb", "done"} =>
           \A p \in 0..(page - 1) :
               p \notin ErrorPages => PageSkus(p) \subseteq StoredSkus(committed)

\* C5 witness: a count of 250 has had its pages 0, 1, 2 attempted, with rows
\* committed, and the run is over.
C5_Witness ==
    /\ pc = "done"
    /\ remote.count = 250
    /\ AttemptedPages = <<0, 1, 2>>
    /\ ErrorPages = {1}
    /\ PageSkus(2) # {}
    /\ PageSkus(2) \subseteq StoredSkus(committed)

VocabularyFiles == {"brands.json", "genders.json"}

\* process() was left by an exception of insert_brands or insert_genders
AbortedByVocabulary ==
    /\ pc = "aborted"
    /\ raised.in \in {"insert_brands", "insert_genders"}

\* this step issued the brands or the genders request and it failed
VocabularyRequestFailed ==
    /\ pc \in {"insert_brands", "insert_genders"}
    /\ Len(requests') = Len(requests) + 1
    /\ requests'[Len(requests')] \notin DOMAIN cache'

\* C16: a failed brands or genders request aborts the run; in the aborted
\* run no sneakers page was requested or attempted, no sneaker, image or
\* search row exists, nothing is published, and nothing happens any more.
C16_VocabularyFailureAborts ==
    [][/\ VocabularyRequestFailed => AbortedByVocabulary'
       /\ AbortedByVocabulary' =>
              /\ \A i \in 1..Len(requests') : requests'[i] \in VocabularyFiles
              /\ DOMAIN cache' \subseteq VocabularyFiles
              /\ log' = <<>>
              /\ db'.sneakers = {} /\ db'.images_360 = {}
              /\ db'.sneakers_fts = {}
              /\ artifact' = <<>>
       /\ AbortedByVocabulary => UNCHANGED vars]_vars

\* C16 witness: the brands were loaded, the genders request failed, and
\* the run is aborted with nothing published.
C16_Witness ==
    /\ AbortedByVocabulary
    /\ raised.in = "insert_genders"
    /\ requests = <<"brands.json", "genders.json">>
    /\ DOMAIN cache = {"brands.json"}
    /\ db.brands # {}
    /\ remote.count > 0
    /\ artifact = <<>>

\* both reference sets are fetched, kept by Database and in their tables
VocabularyLoaded ==
    /\ brands = {remote.brands[i] : i \in 1..Len(remote.brands)}
    /\ genders = {remote.genders[i] : i \in 1..Len(remote.genders)}
    /\ db.brands = brands
    /\ VocabularyFiles \subseteq DOMAIN cache

\* every page from 0 to last_page_num has been attempted
AllPagesAttempted == AttemptedPages = [i \in 1..(last_page_num + 1) |-> i - 1]

\* C17: a sneaker is only ever normalized with both reference sets loaded;
\* the search table is filled in one step, after every page was attempted;
\* the artifact is written once, after that step, as a copy of the indexed
\* database; and once it is written nothing changes any more.
C17_StagesInOrder ==
    [][/\ pc' = "insert" => VocabularyLoaded'
       /\ db'.sneakers # db.sneakers => VocabularyLoaded /\ pc = "insert"
       /\ (db'.sneakers_fts # db.sneakers_fts \/ (pc' = "savedb" /\ pc # "savedb"))
              => /\ pc = "load_fts" /\ pc' = "savedb"
                 /\ AllPagesAttempted
                 /\ db'.sneakers_fts = fts_rows(db.sneakers)
                 /\ db'.sneakers = db.sneakers
       /\ artifact' # artifact
              => /\ pc = "savedb" /\ pc' = "done"
                 /\ artifact = <<>>
                 /\ artifact' = <<db>>
                 /\ db.sneakers_fts = fts_rows(db.sneakers)
       /\ artifact # <<>> => UNCHANGED vars]_vars

\* C17 witness: a run of three pages went through every stage and its
\* artifact holds sneakers and their search rows.
C17_Witness ==
    /\ pc = "done"
    /\ AttemptedPages = <<0, 1, 2>>
    /\ ErrorPages = {}
    /\ artifact # <<>>
    /\ artifact[1].brands # {}
    /\ artifact[1].genders # {}
    /\ Cardinality(artifact[1].sneakers) = 3
    /\ artifact[1].sneakers_fts = fts_rows(artifact[1].sneakers)

(***************************************************************************)
(* Properties of the normalizer (SpecNorm)                                 *)
(***************************************************************************)
\* the sneaker the provider holds
TheRaw == remote.pages[0][1]

\* the raw record has exactly the keys of the closed schema
ClosedSchema(sneaker) ==
    /\ DOMAIN sneaker = SneakerKeys
    /\ DOMAIN sneaker["image"] = ImageKeys
    /\ DOMAIN sneaker["links"] = LinkKeys

\* insert_sneaker has returned for it, and its row
Stored == db.sneakers # {}
TheRow == CHOOSE r \in db.sneakers : TRUE

\* insert_sneaker has raised for it
Failed == 0 \in ErrorPages

\* the year written in a well-formed date, century repaired
YearOfDate(d) ==
    CASE d = DATE_2015 -> 2015
      [] d = <<" ">> \o DATE_2015 \o <<" ">> -> 2015
      [] d = DATE_0099 -> 2099
      [] d = DATE_0000 -> 2000

WellFormedDates ==
    {DATE_2015, <<" ">> \o DATE_2015 \o <<" ">>, DATE_0099, DATE_0000}

\* C4 as stated: a sneaker whose releaseDate is empty or the sentinel is
\* stored without a releaseDate, and with a releaseYear only if the raw
\* releaseYear was positive, unchanged.
C4_SentinelDateDropped ==
    (Stored /\ TheRaw["releaseDate"] \in {<<>>, SENTINEL_DATE}) =>
        /\ "releaseDate" \notin DOMAIN TheRow
        /\ "releaseYear" \in DOMAIN TheRow <=> TheRaw["releaseYear"] > 0
        /\ "releaseYear" \in DOMAIN TheRow =>
               TheRow["releaseYear"] = TheRaw["releaseYear"]

\* C4 amended: a sneaker whose trimmed releaseDate is empty is stored
\* without a releaseDate; one whose trimmed releaseDate is the sentinel
\* 0001-01-01 is stored with that date unchanged; in both cases it is
\* stored (no date validation) with a releaseYear only if the raw
\* releaseYear was positive, unchanged.
C4_SentinelDateKept ==
    /\ TheRaw["releaseDate"] \in
           {<<>>, <<" ">>, SENTINEL_DATE, <<" ">> \o SENTINEL_DATE} => ~Failed
    /\ (Stored /\ TheRaw["releaseDate"] \in {<<>>, <<" ">>}) =>
           "releaseDate" \notin DOMAIN TheRow
    /\ (Stored /\ TheRaw["releaseDate"] \in
                      {SENTINEL_DATE, <<" ">> \o SENTINEL_DATE}) =>
           /\ "releaseDate" \in DOMAIN TheRow
           /\ TheRow["releaseDate"] = SENTINEL_DATE
    /\ (Stored /\ TheRaw["releaseDate"] \in
                      {<<>>, <<" ">>, SENTINEL_DATE, <<" ">> \o SENTINEL_DATE}) =>
           /\ "releaseYear" \in DOMAIN TheRow <=> TheRaw["releaseYear"] > 0
           /\ "releaseYear" \in DOMAIN TheRow =>
                  TheRow["releaseYear"] = TheRaw["releaseYear"]

\* C4 witness: the sentinel date with no usable year is stored, date kept,
\* no year derived.
C4_Witness ==
    /\ Stored
    /\ TheRaw["releaseDate"] = SENTINEL_DATE
    /\ TheRaw["releaseYear"] = 0
    /\ TheRow["releaseDate"] = SENTINEL_DATE
    /\ "releaseYear" \notin DOMAIN TheRow

\* C7: every row of the sneakers table has a non-empty sku.
C7_StoredSkuNonEmpty == \A r \in db.sneakers : r["sku"] # <<>>

\* C8: for the stored sneaker row with sku k and source 360 list L, the
\* images_360 rows whose sku is k are exactly (k, i, L[i]), i from 0.
C8_Images360KeyedByStoredSku ==
    Stored =>
        LET k == TheRow["sku"]
            L == TheRaw["image"]["360"]
        IN  {r \in db.images_360 : r.sku = k} =
                {[sku |-> k, position |-> i - 1, image |-> L[i]] :
                    i \in 1..Len(L)}

\* the value the gender rule gives, case by case
ExpectedGender(g) ==
    CASE g = MENS -> MEN
      [] g = <<"m", "e", "n", "s">> -> MEN
      [] g = <<" ", "W", "o", "m", "e", "n", "s", " ">> -> WOMEN
      [] g = MEN -> MEN
      [] g = WOMEN -> WOMEN
      [] g = KIDS -> KIDS
      [] g = <<"k", "i", "d">> -> <<"K", "I", "D">>

ProviderGenders == {remote.genders[i] : i \in 1..Len(remote.genders)}

\* C9: the gender rule maps MENS to MEN and WOMENS to WOMEN and leaves MEN
\* unchanged (twice is once); a sneaker is stored with the normalized gender
\* when that value is in the reference set and is refused when it is not;
\* the reference set stays the provider's list.
C9_GenderNormalized ==
    LET g == ExpectedGender(TheRaw["gender"]) IN
    /\ normalize_gender(normalize_gender(TheRaw["gender"])) = g
    /\ Stored => (g \in genders /\ TheRow["gender"] = g)
    /\ g \notin ProviderGenders => ~Stored
    /\ (Failed /\ ClosedSchema(TheRaw)
               /\ TheRaw["brand"] \in {NIKE, <<" ", "n", "i", "k", "e">>}
               /\ TheRaw["sku"] = <<"A">> /\ TheRaw["releaseDate"] = DATE_2015)
           => g \notin ProviderGenders
    /\ pc \in {"load_sneakers", "pages", "insert", "load_fts", "savedb", "done"}
           => genders = ProviderGenders

\* C9 witness: MENS is stored as MEN, under a reference set that holds MEN.
C9_Witness ==
    /\ Stored
    /\ TheRaw["gender"] = MENS
    /\ TheRow["gender"] = MEN
    /\ MEN \in genders

PageAttempted == pc \in {"load_fts", "savedb", "done"}

\* the legacy form 00YY-MM-DD with the century digits restored
Rewritten(d) == <<"2", "0">> \o SubSeq(d, 3, Len(d))

\* C11 as stated: every stored releaseDate matches YYYY-MM-DD and does not
\* start with 00; a raw date that starts with 00 is stored with 20 in its
\* place; a non-empty raw date that does not match the pattern is refused.
C11_NoStoredDateStartsWith00 ==
    LET raw == TheRaw["releaseDate"] IN
    /\ (Stored /\ "releaseDate" \in DOMAIN TheRow) =>
           /\ MatchesDate(TheRow["releaseDate"])
           /\ ~StartsWith(TheRow["releaseDate"], <<"0", "0">>)
    /\ (Stored /\ MatchesDate(raw) /\ StartsWith(raw, <<"0", "0">>)) =>
           /\ "releaseDate" \in DOMAIN TheRow
           /\ TheRow["releaseDate"] = Rewritten(raw)
    /\ (raw # <<>> /\ ~MatchesDate(raw)) =>
           /\ ~Stored
           /\ PageAttempted => Failed

\* C11 amended: every stored releaseDate matches YYYY-MM-DD and does not
\* start with 00 unless it is the sentinel 0001-01-01, which is stored as
\* it is; any other trimmed raw date of the form 00YY-MM-DD is stored as
\* 20YY-MM-DD; a raw date that is non-empty after trimming and does not
\* match the pattern is refused, and a date that is only whitespace is not.
C11_StoredDateWellFormed ==
    LET raw == Strip(TheRaw["releaseDate"]) IN
    /\ (Stored /\ "releaseDate" \in DOMAIN TheRow) =>
           /\ MatchesDate(TheRow["releaseDate"])
           /\ StartsWith(TheRow["releaseDate"], <<"0", "0">>) =>
                  TheRow["releaseDate"] = SENTINEL_DATE
    /\ (Stored /\ MatchesDate(raw) /\ StartsWith(raw, <<"0", "0">>)) =>
           /\ "releaseDate" \in DOMAIN TheRow
           /\ TheRow["releaseDate"] =
                  IF raw = SENTINEL_DATE THEN SENTINEL_DATE ELSE Rewritten(raw)
    /\ (raw # <<>> /\ ~MatchesDate(raw)) =>
           /\ ~Stored
           /\ PageAttempted => Failed
    /\ (Stored /\ raw = <<>>) => "releaseDate" \notin DOMAIN TheRow
    /\ (raw = <<>> /\ ClosedSchema(TheRaw)
          /\ TheRaw["sku"] = <<"A">> /\ TheRaw["gender"] = MEN
          /\ MEN \in ProviderGenders /\ TheRaw["brand"] = NIKE) => ~Failed

\* C11 witness: 0099-05-01 is stored as 2099-05-01.
C11_Witness ==
    /\ Stored
    /\ TheRaw["releaseDate"] = DATE_0099
    /\ TheRow["releaseDate"] = DATE_2099

PriceFields == {"estimatedMarketValue", "retailPrice"}

\* the sneaker is one that no other rule refuses
OtherwiseValid ==
    /\ ClosedSchema(TheRaw)
    /\ Strip(TheRaw["sku"]) = <<"A">>
    /\ TheRaw["gender"] = MEN
    /\ MEN \in ProviderGenders
    /\ TheRaw["brand"] = NIKE
    /\ TheRaw["releaseDate"] = DATE_2015

\* C12: estimatedMarketValue and retailPrice are in the stored row exactly
\* when the raw value is above 0, with the raw value; a value of 0 or below
\* leaves the field out and refuses nothing; no stored price is 0 or below.
C12_PricesKeptIffPositive ==
    /\ Stored =>
           \A f \in PriceFields :
               /\ f \in DOMAIN TheRow <=> TheRaw[f] > 0
               /\ f \in DOMAIN TheRow => TheRow[f] = TheRaw[f] /\ TheRow[f] > 0
    /\ OtherwiseValid =>
           /\ ~Failed
           /\ PageAttempted => Stored

\* C12 witness: an estimatedMarketValue of -5 is left out and a retailPrice
\* of 1 is stored as 1.
C12_Witness ==
    /\ Stored
    /\ TheRaw["estimatedMarketValue"] = -5
    /\ TheRaw["retailPrice"] = 1
    /\ "estimatedMarketValue" \notin DOMAIN TheRow
    /\ TheRow["retailPrice"] = 1

\* C13: a raw record whose top-level, image or links key set is not the
\* expected one is refused, and no row of sneakers or images_360 is ever
\* written for it, in the connection, in a commit or in the artifact.
C13_SchemaViolationWritesNothing ==
    ~ClosedSchema(TheRaw) =>
        /\ db.sneakers = {} /\ db.images_360 = {}
        /\ committed.sneakers = {} /\ committed.images_360 = {}
        /\ artifact # <<>> =>
               artifact[1].sneakers = {} /\ artifact[1].images_360 = {}
        /\ PageAttempted => Failed

\* C13 witness: a record without the story key was refused and the run
\* ended with empty sneakers and images_360 tables.
C13_Witness ==
    /\ pc = "done"
    /\ DOMAIN TheRaw = SneakerKeys \ {"story"}
    /\ Len(TheRaw["image"]["360"]) > 0
    /\ Failed
    /\ artifact[1].sneakers = {}
    /\ artifact[1].images_360 = {}

ImageSizes == {"original", "small", "thumbnail"}

\* the sub-document rebuilt from the row's fields prefix_<key>
Rebuilt(row, prefix, keys) ==
    [k \in {j \in keys : (prefix \o j) \in DOMAIN row} |-> row[prefix \o k]]

\* the entries of a document that are non-empty after trimming
NonEmptyEntries(doc, keys) ==
    [k \in {j \in keys : Strip(doc[j]) # <<>>} |-> doc[k]]

\* the same entries, each value trimmed
TrimmedEntries(doc, keys) ==
    [k \in {j \in keys : Strip(doc[j]) # <<>>} |-> Strip(doc[k])]

\* C15 as stated: the image and link sub-fields rebuilt from a stored row
\* are exactly the entries of the original document that are non-empty,
\* with the original values.
C15_RoundTripOriginalValues ==
    (Stored /\ ClosedSchema(TheRaw)) =>
        /\ Rebuilt(TheRow, "image_", ImageSizes) =
               NonEmptyEntries(TheRaw["image"], ImageSizes)
        /\ Rebuilt(TheRow, "link_", LinkKeys) =
               NonEmptyEntries(TheRaw["links"], LinkKeys)

\* C15 amended: the image and link sub-fields rebuilt from a stored row are
\* exactly the entries of the original document that are non-empty after
\* trimming, each with its value trimmed; the row has no other image_ or
\* link_ field and none of them is empty.
C15_RoundTripTrimmedValues ==
    (Stored /\ ClosedSchema(TheRaw)) =>
        /\ Rebuilt(TheRow, "image_", ImageSizes) =
               TrimmedEntries(TheRaw["image"], ImageSizes)
        /\ Rebuilt(TheRow, "link_", LinkKeys) =
               TrimmedEntries(TheRaw["links"], LinkKeys)
        /\ DOMAIN TheRow \cap {"image_360", "image", "links"} = {}
        /\ \A k \in ImageSizes :
               ("image_" \o k) \in DOMAIN TheRow => TheRow["image_" \o k] # <<>>
        /\ \A k \in LinkKeys :
               ("link_" \o k) \in DOMAIN TheRow => TheRow["link_" \o k] # <<>>

\* C15 witness: an original padded with blanks is stored trimmed, a small
\* of one blank and an empty goat are left out, stockX is stored as it is.
C15_Witness ==
    /\ Stored
    /\ TheRaw["image"]["original"] = <<" ", "u", "1", " ">>
    /\ TheRaw["image"]["small"] = <<" ">>
    /\ TheRaw["links"]["goat"] = <<>>
    /\ TheRaw["links"]["stockX"] = URL1
    /\ TheRow["image_original"] = URL1
    /\ "image_small" \notin DOMAIN TheRow
    /\ "link_goat" \notin DOMAIN TheRow
    /\ TheRow["link_stockX"] = URL1

\* every sneakers row of the database d refers to a row of brands and to a
\* row of genders
RowsRefer(d) ==
    \A r \in d.sneakers :
        /\ "brand" \in DOMAIN r /\ r["brand"] \in d.brands
        /\ "gender" \in DOMAIN r /\ r["gender"] \in d.genders

\* C19: in the connection's view, in the last commit and in the artifact,
\* the brand and the gender of every sneakers row are rows of the brands
\* and genders tables; the genders table never holds MENS or WOMENS and,
\* once filled, is the fetched gender set without them.
C19_ReferenceIntegrity ==
    /\ RowsRefer(db)
    /\ RowsRefer(committed)
    /\ artifact # <<>> => RowsRefer(artifact[1])
    /\ db.genders \cap {MENS, WOMENS} = {}
    /\ pc \in {"load_sneakers", "pages", "insert", "load_fts", "savedb", "done"}
           => /\ db.genders = ProviderGenders \ {MENS, WOMENS}
              /\ db.brands = {remote.brands[i] : i \in 1..Len(remote.brands)}

\* C19 witness: a sneaker given as " Womens " is published as WOMEN, a row
\* of the genders table, which leaves the fetched WOMENS out.
C19_Witness ==
    /\ artifact # <<>>
    /\ TheRaw["gender"] = <<" ", "W", "o", "m", "e", "n", "s", " ">>
    /\ \E r \in artifact[1].sneakers : r["gender"] = WOMEN /\ r["brand"] = NIKE
    /\ WOMENS \in ProviderGenders
    /\ artifact[1].genders = {MEN, WOMEN}
    /\ artifact[1].brands = {NIKE}

(***************************************************************************)
(* Properties of Api.call (SpecCall)                                       *)
(***************************************************************************)
\* C3: an invocation of call never changes or removes an existing cache
\* entry, and an invocation whose file exists returns the stored document,
\* issues no request and leaves the cache as it is.
C3_CacheHitAbsolute ==
    [][ncalls' = ncalls + 1 =>
          /\ \A f \in DOMAIN cache : f \in DOMAIN cache' /\ cache'[f] = cache[f]
          /\ returned'.file \in DOMAIN cache =>
                 /\ returned'.exc = "none"
                 /\ returned'.data = cache[returned'.file]
                 /\ requests' = requests
                 /\ cache' = cache]_vars

\* C3 witness: after one request that wrote the file, two further calls
\* hit it and issue no request.
C3_Witness ==
    /\ returned.hit
    /\ returned.file = "sneakers_limit_100_page_0.json"
    /\ returned.data = cache[returned.file]
    /\ requests = <<"sneakers_limit_100_page_0.json">>
    /\ ncalls = 3

\* two invocations of call in a row, the second just returned
TwoCalls == ncalls > 0 /\ ncalls' = ncalls + 1

\* C14: two invocations with the same endpoint and the same key/value pairs,
\* in whatever insertion order, have the same cache path.
C14_CacheKeyOrderIndependent ==
    [][(/\ TwoCalls
        /\ returned'.endpoint = returned.endpoint
        /\ returned'.items = returned.items)
           => returned'.file = returned.file]_vars

\* C14 witness: a call whose querystring was built page first, limit second
\* hit the file that the sorted keys name, and only one request was issued.
C14_Witness ==
    /\ returned.keys = <<"page", "limit">>
    /\ returned.file = "sneakers_limit_100_page_0.json"
    /\ returned.hit
    /\ requests = <<"sneakers_limit_100_page_0.json">>
    /\ ncalls = 2

\* C20: two invocations that differ in the endpoint or in the set of
\* key/value pairs have different cache paths.
C20_DistinctSignaturesDistinctKeys ==
    [][(/\ TwoCalls
        /\ \/ returned'.endpoint # returned.endpoint
           \/ returned'.items # returned.items)
           => returned'.file # returned.file]_vars

\* C18: an invocation raises only on an uncached path, after issuing the
\* request, and then leaves the cache as it was, without an entry at that
\* path; every invocation on an uncached path issues the request, so the
\* invocation that follows a failed one on the same path issues it again.
C18_FailureNotCached ==
    [][ncalls' = ncalls + 1 =>
          /\ returned'.file \notin DOMAIN cache =>
                 /\ ~returned'.hit
                 /\ requests' = Append(requests, returned'.file)
          /\ returned'.exc # "none" =>
                 /\ returned'.file \notin DOMAIN cache
                 /\ cache' = cache
                 /\ returned'.file \notin DOMAIN cache'
          /\ (ncalls > 0 /\ returned.exc # "none"
                /\ returned'.file = returned.file) =>
                 /\ ~returned'.hit
                 /\ requests' = Append(requests, returned'.file)]_vars

\* C18 witness: the first call of sneakers page 1 failed; the second one
\* issued the request again, got the document and cached it.
C18_Witness ==
    /\ ncalls = 2
    /\ requests = <<"sneakers_limit_100_page_1.json",
                    "sneakers_limit_100_page_1.json">>
    /\ returned.file = "sneakers_limit_100_page_1.json"
    /\ ~returned.hit
    /\ returned.exc = "none"
    /\ DOMAIN cache = {"sneakers_limit_100_page_1.json"}

(***************************************************************************)
(* Properties of the concurrent driver (SpecConc)                          *)
(***************************************************************************)
\* thread w has inserted a row of its page and not yet committed
InTransaction(w) ==
    /\ workers[w].pc = "insert"
    /\ workers[w].idx > 1

=============================================================================
